---- MODULE Spec2Model ----
(***************************************************************************)
(* Checkers rules engine and Player-vs-Bot game loop of src/game.py.       *)
(*                                                                         *)
(* A board is a function from cells <<r, c>> to None or a piece            *)
(* <<color, king>>, as Board.board holds None or the tuple (color, king).  *)
(* A move is <<to_r, to_c, captured>>, captured being the sequence of      *)
(* jumped cells, as the tuples legal_moves_for returns.                    *)
(***************************************************************************)
EXTENDS Integers, Sequences, FiniteSets, TLC

\* ---------------------------------------------------------------- constants
ROWS == 8
COLS == 8
PLAYER == 1
BOT == 2

\* Python's None: an empty cell, an unset selection, the turn after game over.
None == <<>>

\* ------------------------------------------------------------------- bounds
\* Number of moves applied in one run of the game loop.
MaxPlies == 3
\* Number of apply_move calls in one run of the engine harness.
MaxCalls == 2
\* How far apart, in rows and in columns, the two pieces of a duel stand.
DuelReach == 2

\* The most opposing men around the piece of a board of the query harness.
MaxFoes == 4

\* ---------------------------------------------------------------- utilities
Cells == (0 .. ROWS - 1) \X (0 .. COLS - 1)

in_bounds(r, c) == 0 <= r /\ r < ROWS /\ 0 <= c /\ c < COLS

opponent(color) == IF color = PLAYER THEN BOT ELSE PLAYER

\* ------------------------------------------------------------- Board state
\* Board.__init__: every cell None.
EmptyBoard == [cell \in Cells |-> None]

\* Board.setup applied to the empty grid: the classic starting position.
setup ==
  [cell \in Cells |->
     IF (cell[1] + cell[2]) % 2 = 1
       THEN IF cell[1] < 3 THEN <<BOT, FALSE>>
            ELSE IF cell[1] > 4 THEN <<PLAYER, FALSE>>
            ELSE EmptyBoard[cell]
       ELSE EmptyBoard[cell]]

get(b, r, c) == IF ~in_bounds(r, c) THEN None ELSE b[<<r, c>>]

set(b, r, c, val) == IF in_bounds(r, c) THEN [b EXCEPT ![<<r, c>>] = val] ELSE b

remove(b, r, c) == IF in_bounds(r, c) THEN [b EXCEPT ![<<r, c>>] = None] ELSE b

\* A fresh Board whose grid is a row-by-row copy of b's: cells hold immutable
\* tuples, so the copy carries the same values and shares nothing with b.
clone(b) == [cell \in Cells |-> b[cell]]

\* remove() applied to each cell of a captured list: the listed cells are
\* cleared, every other cell is kept.
RemoveAll(b, caplist) ==
  [cell \in Cells |->
     IF \E i \in 1 .. Len(caplist) : caplist[i] = cell
       THEN remove(b, cell[1], cell[2])[cell]
       ELSE b[cell]]

\* The concatenation of a sequence of sequences, in order: what a loop that
\* appends to one list builds from what each pass appends.
RECURSIVE Flatten(_)
Flatten(ss) == IF ss = <<>> THEN <<>> ELSE Head(ss) \o Flatten(Tail(ss))

\* The body of the loops of Board.pieces for the cell (r, c) holding p: what
\* is appended to res.
PiecesCell(r, c, p, color) ==
  IF p # None /\ p[1] = color THEN << <<r, c, p[2]>> >> ELSE <<>>

\* Board.pieces: <<r, c, king>> of every piece of a color, in row-major order
\* (k - 1 = r * COLS + c).
pieces(b, color) ==
  Flatten([k \in 1 .. ROWS * COLS |->
             PiecesCell((k - 1) \div COLS, (k - 1) % COLS,
                        get(b, (k - 1) \div COLS, (k - 1) % COLS), color)])

\* ---------------------------------------------------------- Move generator
\* directions with a vector mistyped: (-1, 0) for (-1, 1), (1, 0) for (1, 1).
directions_straight(color, king) ==
  (IF king \/ color = PLAYER THEN << <<-1, -1>>, <<-1, 0>> >> ELSE <<>>)
  \o (IF king \/ color = BOT THEN << <<1, -1>>, <<1, 0>> >> ELSE <<>>)

\* The direction list built at the top of legal_moves_for and of
\* _recursive_captures.
directions(color, king) ==
  (IF king \/ color = PLAYER THEN << <<-1, -1>>, <<-1, 1>> >> ELSE <<>>)
  \o (IF king \/ color = BOT THEN << <<1, -1>>, <<1, 1>> >> ELSE <<>>)

\* JumpOnClone crowning the piece when a jump lands on its last row.
JumpOnClone_crowning(b, r, c, jr, jc, caplist) ==
  RemoveAll(remove(set(clone(b), jr, jc,
                       <<get(b, r, c)[1],
                         get(b, r, c)[2] \/ (get(b, r, c)[1] = PLAYER /\ jr = 0)
                                         \/ (get(b, r, c)[1] = BOT /\ jr = ROWS - 1)>>),
                   r, c),
            caplist)

\* The jump made on a clone before the search goes on: the piece is written
\* to the landing cell, the start cell and the captured cells are cleared.
JumpOnClone(b, r, c, jr, jc, caplist) ==
  RemoveAll(remove(set(clone(b), jr, jc, get(clone(b), r, c)), r, c), caplist)

\* Extend without the continuation: every capture is kept as a single jump.
Extend_single(cap, more) == <<cap>>

\* Extend writing the jumped cell twice: caplist + caplist + extra[2].
Extend_twice(cap, more) ==
  IF more # <<>>
    THEN [i \in 1 .. Len(more) |-> <<more[i][1], more[i][2], cap[3] \o cap[3] \o more[i][3]>>]
    ELSE <<cap>>

\* Extend listing the later jumps first: extra[2] + caplist.
Extend_reversed(cap, more) ==
  IF more # <<>>
    THEN [i \in 1 .. Len(more) |-> <<more[i][1], more[i][2], more[i][3] \o cap[3]>>]
    ELSE <<cap>>

\* One capture continued by the chains `more` found from its landing cell, or
\* kept as it is when there are none.
Extend(cap, more) ==
  IF more # <<>>
    THEN [i \in 1 .. Len(more) |-> <<more[i][1], more[i][2], cap[3] \o more[i][3]>>]
    ELSE <<cap>>

\* The body of the direction loop of _recursive_captures: what the direction
\* (dr, dc) appends to captures.
JumpDir(b, r, c, color, dr, dc) ==
  LET nr == r + dr
      nc == c + dc
      jr == nr + dr
      jc == nc + dc
  IN IF in_bounds(nr, nc) /\ in_bounds(jr, jc)
        /\ get(b, nr, nc) # None
        /\ get(b, nr, nc)[1] = opponent(color)
        /\ get(b, jr, jc) = None
       THEN << <<jr, jc, << <<nr, nc>> >> >> >>
       ELSE <<>>

\* The direction loop of _recursive_captures: the single jumps from (r, c).
Jumps(b, r, c, color, dirs) ==
  Flatten([i \in 1 .. Len(dirs) |-> JumpDir(b, r, c, color, dirs[i][1], dirs[i][2])])

RECURSIVE _recursive_captures(_, _, _)
RECURSIVE Chains(_, _, _, _)

\* The loop over the single captures, written twice in the source (in
\* legal_moves_for and in _recursive_captures): every capture is made on a
\* clone and continued by the search from its landing cell.
Chains(b, r, c, captures) ==
  Flatten([i \in 1 .. Len(captures) |->
             Extend(captures[i],
                    _recursive_captures(
                      JumpOnClone(b, r, c, captures[i][1], captures[i][2], captures[i][3]),
                      captures[i][1], captures[i][2]))])

_recursive_captures(b, r, c) ==
  IF get(b, r, c) = None THEN <<>>
  ELSE Chains(b, r, c,
              Jumps(b, r, c, get(b, r, c)[1],
                    directions(get(b, r, c)[1], get(b, r, c)[2])))

\* The body of the direction loop of legal_moves_for: what the direction
\* (dr, dc) appends, as <<to moves, to captures>>.
StepDir(b, r, c, color, dr, dc) ==
  LET nr == r + dr
      nc == c + dc
      jr == nr + dr
      jc == nc + dc
  IN IF ~in_bounds(nr, nc) THEN << <<>>, <<>> >>
     ELSE IF get(b, nr, nc) = None
       THEN << << <<nr, nc, <<>> >> >>, <<>> >>
     ELSE IF get(b, nr, nc)[1] = opponent(color)
             /\ in_bounds(jr, jc) /\ get(b, jr, jc) = None
       THEN << <<>>, << <<jr, jc, << <<nr, nc>> >> >> >> >>
     ELSE << <<>>, <<>> >>

\* The direction loop of legal_moves_for: <<moves, captures>>.
Steps(b, r, c, color, dirs) ==
  << Flatten([i \in 1 .. Len(dirs) |-> StepDir(b, r, c, color, dirs[i][1], dirs[i][2])[1]]),
     Flatten([i \in 1 .. Len(dirs) |-> StepDir(b, r, c, color, dirs[i][1], dirs[i][2])[2]]) >>

\* Mandatory returning the simple moves along with the captures.
Mandatory_keeps_moves(moves, full_captures) == full_captures \o moves

\* The end of legal_moves_for: captures, when there are any, are all that is
\* returned.
Mandatory(moves, full_captures) ==
  IF full_captures # <<>> THEN full_captures ELSE moves

\* legal_moves_for once the direction loop has produced first = <<moves, captures>>.
LegalFrom(b, r, c, first) ==
  Mandatory(first[1], Chains(b, r, c, first[2]))

legal_moves_for(b, r, c) ==
  IF get(b, r, c) = None THEN <<>>
  ELSE LegalFrom(b, r, c,
                 Steps(b, r, c, get(b, r, c)[1],
                       directions(get(b, r, c)[1], get(b, r, c)[2])))

\* ------------------------------------------------------------ Move applier
\* Kinging that rewrites the destination on every move, as a king on the
\* back rank and as a man anywhere else.
Kinging_rewrite(b3, color, to_r, to_c) ==
  set(b3, to_r, to_c,
      <<color, (color = PLAYER /\ to_r = 0) \/ (color = BOT /\ to_r = ROWS - 1)>>)

\* apply_move without its kinging step.
Kinging_none(b3, color, to_r, to_c) == b3

\* The kinging step of apply_move, on the board b3 left by the relocation.
Kinging(b3, color, to_r, to_c) ==
  IF (color = PLAYER /\ to_r = 0) \/ (color = BOT /\ to_r = ROWS - 1)
    THEN set(b3, to_r, to_c, <<color, TRUE>>)
    ELSE b3

\* RemoveCaptured leaving the loop after the first captured cell.
RemoveCaptured_first(b2, captured) ==
  IF captured = <<>> THEN b2 ELSE remove(b2, captured[1][1], captured[1][2])

\* for cr, cc in captured: self.remove(cr, cc)
RemoveCaptured(b2, captured) == RemoveAll(b2, captured)

\* self.set(to_r, to_c, p); self.remove(r, c)
Relocate(b, r, c, to_r, to_c) == remove(set(b, to_r, to_c, get(b, r, c)), r, c)

apply_move(b, r, c, to_r, to_c, captured) ==
  Kinging(RemoveCaptured(Relocate(b, r, c, to_r, to_c), captured),
          get(b, r, c)[1], to_r, to_c)

\* -------------------------------------------------------- Side-wide queries
\* any(m[2] for m in moves)
HasCaptureMove(moves) == \E j \in 1 .. Len(moves) : moves[j][3] # <<>>

\* The loop of any_capture_available over ps = pieces(color).
AnyCaptureIn(b, ps) ==
  \E i \in 1 .. Len(ps) : HasCaptureMove(legal_moves_for(b, ps[i][1], ps[i][2]))

any_capture_available(b, color) == AnyCaptureIn(b, pieces(b, color))

\* any(self.legal_moves_for(r, c) for r, c, k in ps)
AnyLegalIn(b, ps) ==
  \E i \in 1 .. Len(ps) : legal_moves_for(b, ps[i][1], ps[i][2]) # <<>>

\* ------------------------------------------------------- Terminal detector
\* game_over looking for a side without moves before it counts the pieces.
game_over_moves_first(b) ==
  IF ~AnyLegalIn(b, pieces(b, PLAYER)) THEN <<TRUE, "Bot wins (no moves for player)">>
  ELSE IF ~AnyLegalIn(b, pieces(b, BOT)) THEN <<TRUE, "Player wins (no moves for bot)">>
  ELSE IF Len(pieces(b, PLAYER)) = 0 THEN <<TRUE, "Bot wins">>
  ELSE IF Len(pieces(b, BOT)) = 0 THEN <<TRUE, "Player wins">>
  ELSE <<FALSE, "">>

\* game_over without the two scans for a side that cannot move.
game_over_counts_only(b) ==
  IF Len(pieces(b, PLAYER)) = 0 THEN <<TRUE, "Bot wins">>
  ELSE IF Len(pieces(b, BOT)) = 0 THEN <<TRUE, "Player wins">>
  ELSE <<FALSE, "">>

\* game_over looking at the Bot's moves before the Player's.
game_over_bot_first(b) ==
  IF Len(pieces(b, PLAYER)) = 0 THEN <<TRUE, "Bot wins">>
  ELSE IF Len(pieces(b, BOT)) = 0 THEN <<TRUE, "Player wins">>
  ELSE IF ~AnyLegalIn(b, pieces(b, BOT)) THEN <<TRUE, "Player wins (no moves for bot)">>
  ELSE IF ~AnyLegalIn(b, pieces(b, PLAYER)) THEN <<TRUE, "Bot wins (no moves for player)">>
  ELSE <<FALSE, "">>

game_over(b) ==
  IF Len(pieces(b, PLAYER)) = 0 THEN <<TRUE, "Bot wins">>
  ELSE IF Len(pieces(b, BOT)) = 0 THEN <<TRUE, "Player wins">>
  ELSE IF ~AnyLegalIn(b, pieces(b, PLAYER)) THEN <<TRUE, "Bot wins (no moves for player)">>
  ELSE IF ~AnyLegalIn(b, pieces(b, BOT)) THEN <<TRUE, "Player wins (no moves for bot)">>
  ELSE <<FALSE, "">>

\* ---------------------------------------------------------------- Bot logic
\* <<r, c, to_r, to_c, captured>> for every move of lm, the moves of (r, c).
FromCell(r, c, lm) ==
  [j \in 1 .. Len(lm) |-> <<r, c, lm[j][1], lm[j][2], lm[j][3]>>]

\* The loops of bot_move over ps = pieces(BOT): every move of every Bot
\* piece, in the order they are visited.
BotMoves(b, ps) ==
  Flatten([i \in 1 .. Len(ps) |->
             FromCell(ps[i][1], ps[i][2], legal_moves_for(b, ps[i][1], ps[i][2]))])

IsCapture(m) == m[5] # <<>>

IsSimple(m) == m[5] = <<>>

\* Top keeping every capture: random.choice(capture_moves).
Top_all(capture_moves) == {capture_moves[i] : i \in 1 .. Len(capture_moves)}

\* capture_moves.sort(key=-len(captured)); top = those as long as the first.
Top(capture_moves) ==
  {capture_moves[i] : i \in {k \in 1 .. Len(capture_moves) :
     \A j \in 1 .. Len(capture_moves) :
       Len(capture_moves[j][5]) <= Len(capture_moves[k][5])}}

\* moves.sort(key=score_move, reverse=True); moves[:max(1, len(moves)//3)]:
\* the moves whose place after the stable descending sort on to_r is among
\* the first max(1, len // 3).
TopK(moves) ==
  {moves[i] : i \in {k \in 1 .. Len(moves) :
     Cardinality({j \in 1 .. Len(moves) :
        moves[j][3] > moves[k][3] \/ (moves[j][3] = moves[k][3] /\ j < k)})
       < (IF Len(moves) \div 3 > 1 THEN Len(moves) \div 3 ELSE 1)}}

\* The choice made by bot_move once the two lists are filled.
BotChoice(capture_moves, moves) ==
  IF capture_moves # <<>> THEN Top(capture_moves)
  ELSE IF moves = <<>> THEN {None}
  ELSE {moves[i] : i \in 1 .. Len(moves)} \cup TopK(moves)

\* bot_move once every move of every Bot piece is listed in all.
BotSplit(all) == BotChoice(SelectSeq(all, IsCapture), SelectSeq(all, IsSimple))

\* The set of values bot_move may return; random.choice and random.random
\* are choices the model leaves open.  {None} when it returns None.
bot_move(b) == BotSplit(BotMoves(b, pieces(b, BOT)))

\* ------------------------------------------------------------ object store
\* The queries once more, this time on the objects they work on.  A Board
\* holds a list of row lists; H is the store of every row list alive, by
\* address, and a Board object o is the list of the addresses of its rows.
\* Each query returns its result with the store it leaves behind.

\* The store of a program whose only Board is b, and that Board.
HeapOf(b) == [a \in 1 .. ROWS |-> [k \in 1 .. COLS |-> b[<<a - 1, k - 1>>]]]

Root == [k \in 1 .. ROWS |-> k]

\* The grid an object shows: self.board[r][c] for every cell.
View(H, o) == [cell \in Cells |-> H[o[cell[1] + 1]][cell[2] + 1]]

\* self.board[r][c] = val
set_in(H, o, r, c, val) ==
  IF in_bounds(r, c) THEN [H EXCEPT ![o[r + 1]][c + 1] = val] ELSE H

\* self.board[r][c] = None
remove_in(H, o, r, c) ==
  IF in_bounds(r, c) THEN [H EXCEPT ![o[r + 1]][c + 1] = None] ELSE H

\* clone keeping the row lists of the original: b.board = self.board.
clone_rows_shared(H, o) == o

\* The rows of the Board that clone returns: ROWS fresh lists.
clone_rows(H, o) == [k \in 1 .. ROWS |-> Len(H) + k]

\* The store after clone: row[:] of every row of o is allocated.
clone_store(H, o) == H \o [k \in 1 .. ROWS |-> H[o[k]]]

\* for (cr, cc) in caplist: clone.remove(cr, cc)
RECURSIVE RemoveEach(_, _, _)
RemoveEach(H, o, caplist) ==
  IF caplist = <<>> THEN H
  ELSE RemoveEach(remove_in(H, o, Head(caplist)[1], Head(caplist)[2]), o, Tail(caplist))

\* clone.set(jr, jc, clone.get(r, c)); clone.remove(r, c); the removal of
\* the captured cells: the jump made on the object cl.
JumpIn(H, cl, r, c, cap) ==
  RemoveEach(remove_in(set_in(H, cl, cap[1], cap[2], get(View(H, cl), r, c)), cl, r, c),
             cl, cap[3])

\* <<chains, store>> of a capture loop: what one capture contributed, then
\* the rest of the loop.
Joined(full, rest) == <<full \o rest[1], rest[2]>>

RECURSIVE CapturesIn(_, _, _, _)
RECURSIVE ChainsIn(_, _, _, _, _)
RECURSIVE ChainsRest(_, _, _, _, _)

\* The loop over the single captures of legal_moves_for and of
\* _recursive_captures on the object o: <<full, store>>.
ChainsIn(H, o, r, c, captures) ==
  IF captures = <<>> THEN << <<>>, H >>
  ELSE ChainsRest(o, r, c, captures,
                  CapturesIn(JumpIn(clone_store(H, o), clone_rows(H, o), r, c, Head(captures)),
                             clone_rows(H, o), Head(captures)[1], Head(captures)[2]))

\* The loop once the search on the clone returned sub = <<more, store>>.
ChainsRest(o, r, c, captures, sub) ==
  Joined(Extend(Head(captures), sub[1]), ChainsIn(sub[2], o, r, c, Tail(captures)))

\* _recursive_captures on the object o: <<full, store>>.
CapturesIn(H, o, r, c) ==
  IF get(View(H, o), r, c) = None THEN << <<>>, H >>
  ELSE ChainsIn(H, o, r, c,
                Jumps(View(H, o), r, c, get(View(H, o), r, c)[1],
                      directions(get(View(H, o), r, c)[1], get(View(H, o), r, c)[2])))

\* The end of legal_moves_for with ch = <<full_captures, store>>.
MandatoryIn(moves, ch) == <<Mandatory(moves, ch[1]), ch[2]>>

\* legal_moves_for on the object o once the direction loop has produced
\* first = <<moves, captures>>.
LegalFromIn(H, o, r, c, first) ==
  MandatoryIn(first[1], ChainsIn(H, o, r, c, first[2]))

\* legal_moves_for on the object o: <<moves, store>>.
legal_moves_in(H, o, r, c) ==
  IF get(View(H, o), r, c) = None THEN << <<>>, H >>
  ELSE LegalFromIn(H, o, r, c,
                   Steps(View(H, o), r, c, get(View(H, o), r, c)[1],
                         directions(get(View(H, o), r, c)[1], get(View(H, o), r, c)[2])))

RECURSIVE AnyCaptureScan(_, _, _)
RECURSIVE AnyLegalScan(_, _, _)

\* The loop of any_capture_available over ps, left at the first piece with
\* a capture: <<result, store>>.
AnyCaptureNext(o, ps, res) ==
  IF HasCaptureMove(res[1]) THEN <<TRUE, res[2]>>
  ELSE AnyCaptureScan(res[2], o, Tail(ps))

AnyCaptureScan(H, o, ps) ==
  IF ps = <<>> THEN <<FALSE, H>>
  ELSE AnyCaptureNext(o, ps, legal_moves_in(H, o, Head(ps)[1], Head(ps)[2]))

\* any_capture_available on the object o: <<result, store>>.
any_capture_in(H, o, color) == AnyCaptureScan(H, o, pieces(View(H, o), color))

\* any(self.legal_moves_for(r, c) for r, c, k in ps), left at the first
\* piece with a move: <<result, store>>.
AnyLegalNext(o, ps, res) ==
  IF res[1] # <<>> THEN <<TRUE, res[2]>>
  ELSE AnyLegalScan(res[2], o, Tail(ps))

AnyLegalScan(H, o, ps) ==
  IF ps = <<>> THEN <<FALSE, H>>
  ELSE AnyLegalNext(o, ps, legal_moves_in(H, o, Head(ps)[1], Head(ps)[2]))

\* game_over from its second scan on, player = <<result, store>> of the
\* scan of the Player's pieces and bot that of the Bot's.
GameOverBot(bot) ==
  IF ~bot[1] THEN <<TRUE, "Player wins (no moves for bot)", bot[2]>>
  ELSE <<FALSE, "", bot[2]>>

GameOverPlayer(o, player) ==
  IF ~player[1] THEN <<TRUE, "Bot wins (no moves for player)", player[2]>>
  ELSE GameOverBot(AnyLegalScan(player[2], o, pieces(View(player[2], o), BOT)))

\* game_over on the object o: <<over, msg, store>>.
game_over_in(H, o) ==
  IF Len(pieces(View(H, o), PLAYER)) = 0 THEN <<TRUE, "Bot wins", H>>
  ELSE IF Len(pieces(View(H, o), BOT)) = 0 THEN <<TRUE, "Player wins", H>>
  ELSE GameOverPlayer(o, AnyLegalScan(H, o, pieces(View(H, o), PLAYER)))

\* ------------------------------------------------------------------- state
VARIABLES
  board,        \* the authoritative Board
  turn,         \* PLAYER, BOT, or NoTurn once the game is over
  ai_thinking,
  selected,     \* None or the selected cell <<r, c>>
  valid_moves,  \* None or legal_moves_for of the selected cell; the code only
                \* ever tests its truth value, so None and [] are both <<>>
  message,
  over,         \* the locals `over, msg` of main: the last game_over() result
  msg,
  last,         \* history: None or <<board before, r, c, move>> of the last
                \* apply_move call
  plies         \* history: number of apply_move calls so far

vars == <<board, turn, ai_thinking, selected, valid_moves, message, over, msg, last, plies>>

\* turn = None
NoTurn == 0

\* Builds a board from a set of <<r, c, color, king>>.
MkBoard(S) ==
  [cell \in Cells |->
     IF \E x \in S : <<x[1], x[2]>> = cell
       THEN LET x == CHOOSE y \in S : <<y[1], y[2]>> = cell IN <<x[3], x[4]>>
       ELSE None]


\* ---------------------------------------------------------------- game loop
Init ==
  /\ board = setup
  /\ turn = PLAYER
  /\ ai_thinking = FALSE
  /\ selected = None
  /\ valid_moves = None
  /\ message = ""
  /\ over = FALSE
  /\ msg = ""
  /\ last = None
  /\ plies = 0

\* The search of valid_moves for the clicked cell: the first move whose
\* destination is (r, c), None when there is none or nothing is selected.
Found(sel, vm, r, c) ==
  IF sel # None /\ vm # <<>>
       /\ \E i \in 1 .. Len(vm) : vm[i][1] = r /\ vm[i][2] = c
    THEN vm[CHOOSE i \in 1 .. Len(vm) :
              /\ vm[i][1] = r /\ vm[i][2] = c
              /\ \A j \in 1 .. i - 1 : ~(vm[j][1] = r /\ vm[j][2] = c)]
    ELSE None

\* over, msg = board.game_over() and the branch on over that follows an
\* applied move: res is the value game_over returned, next the side that
\* moves if the game goes on.
Judge(res, next) ==
  /\ over' = res[1]
  /\ msg' = res[2]
  /\ IF res[1]
       THEN message' = res[2] /\ turn' = NoTurn
       ELSE turn' = next /\ UNCHANGED message

\* board.apply_move(r, c, to_r, to_c, captured) by the game loop, followed
\* by the game_over check.
Apply(r, c, mv, next) ==
  /\ plies < MaxPlies
  /\ board' = apply_move(board, r, c, mv[1], mv[2], mv[3])
  /\ last' = <<board, r, c, mv>>
  /\ plies' = plies + 1
  /\ \E res \in {game_over(board')} : Judge(res, next)

\* PlayerMove leaving the turn with the Player.
PlayerMove_keeps_turn(found) ==
  /\ Apply(selected[1], selected[2], found, PLAYER)
  /\ selected' = None
  /\ valid_moves' = None
  /\ ai_thinking' = IF turn' = BOT THEN TRUE ELSE ai_thinking

\* PlayerMove keeping the selection and its cached moves after the move.
PlayerMove_keeps_selection(found) ==
  /\ Apply(selected[1], selected[2], found, BOT)
  /\ UNCHANGED <<selected, valid_moves>>
  /\ ai_thinking' = IF turn' = BOT THEN TRUE ELSE ai_thinking

\* The "if found:" branch of the handler.
PlayerMove(found) ==
  /\ Apply(selected[1], selected[2], found, BOT)
  /\ selected' = None
  /\ valid_moves' = None
  /\ ai_thinking' = IF turn' = BOT THEN TRUE ELSE ai_thinking

\* The MOUSEBUTTONDOWN handler of main for a click on cell (r, c), p the
\* content of the cell and found the result of the search of valid_moves.
\* A click on a Player piece that is not a move selects it, with or without
\* a selection; any other click clears the selection.
Handle(r, c, p, found) ==
  IF found # None
    THEN PlayerMove(found)
    ELSE /\ IF p # None /\ p[1] = PLAYER
              THEN /\ selected' = <<r, c>>
                   /\ valid_moves' = legal_moves_for(board, r, c)
              ELSE /\ selected' = None
                   /\ valid_moves' = IF selected # None THEN None ELSE valid_moves
         /\ UNCHANGED <<board, turn, ai_thinking, message, over, msg, last, plies>>

\* Click without the test of the turn: the handler runs whenever the Bot is
\* not thinking.
Click_any_turn(r, c) ==
  /\ ~ai_thinking
  /\ Handle(r, c, get(board, r, c), Found(selected, valid_moves, r, c))

Click(r, c) ==
  /\ turn = PLAYER /\ ~ai_thinking
  /\ Handle(r, c, get(board, r, c), Found(selected, valid_moves, r, c))

\* The "Bot turn" block of main for the value mv returned by bot_move.
BotApply(mv) ==
  IF mv = None
    THEN /\ \E res \in {game_over(board)} : Judge(res, PLAYER)
         /\ ai_thinking' = FALSE
         /\ UNCHANGED <<board, selected, valid_moves, last, plies>>
    ELSE /\ Apply(mv[1], mv[2], <<mv[3], mv[4], mv[5]>>, PLAYER)
         /\ ai_thinking' = FALSE
         /\ UNCHANGED <<selected, valid_moves>>

BotTurn ==
  /\ turn = BOT /\ ai_thinking
  /\ \E mv \in bot_move(board) : BotApply(mv)

Next ==
  \/ \E r \in 0 .. ROWS - 1, c \in 0 .. COLS - 1 : Click(r, c)
  \/ BotTurn

Spec == Init /\ [][Next]_vars

\* ----------------------------------------------------------- engine harness
\* The engine called directly, as its interface allows: apply_move with any
\* legal move of any piece of either side, and game_over, on boards of games
\* in progress.  Pieces stand on dark squares only and no man stands on the
\* row where it would have been crowned.

\* A king that can jump four men in a ring and land where it started.
Ring ==
  MkBoard({<<2, 1, PLAYER, TRUE>>, <<1, 2, BOT, FALSE>>, <<1, 4, BOT, FALSE>>,
           <<3, 2, BOT, FALSE>>, <<3, 4, BOT, FALSE>>, <<7, 6, PLAYER, FALSE>>})

\* The same ring around a king that stands on its own crowning row.
RingTop ==
  MkBoard({<<0, 3, PLAYER, TRUE>>, <<1, 2, BOT, FALSE>>, <<1, 4, BOT, FALSE>>,
           <<3, 2, BOT, FALSE>>, <<3, 4, BOT, FALSE>>})

\* One jump by the Bot man at (3, 2) leaves neither side a legal move.
JamNext ==
  MkBoard({<<7, 0, PLAYER, FALSE>>, <<7, 2, PLAYER, FALSE>>, <<7, 4, PLAYER, FALSE>>,
           <<7, 6, PLAYER, FALSE>>, <<4, 1, PLAYER, FALSE>>,
           <<6, 1, BOT, FALSE>>, <<6, 3, BOT, FALSE>>, <<6, 5, BOT, FALSE>>,
           <<6, 7, BOT, FALSE>>, <<5, 2, BOT, FALSE>>, <<5, 4, BOT, FALSE>>,
           <<5, 6, BOT, FALSE>>, <<3, 2, BOT, FALSE>>})

\* One jump by the Player man at (3, 2) takes the last Bot piece and leaves
\* the Player pieces blocking each other.
BlockedNext ==
  MkBoard({<<0, 1, PLAYER, TRUE>>, <<0, 3, PLAYER, TRUE>>, <<0, 5, PLAYER, TRUE>>,
           <<0, 7, PLAYER, TRUE>>, <<1, 2, PLAYER, FALSE>>, <<1, 4, PLAYER, FALSE>>,
           <<1, 6, PLAYER, FALSE>>, <<3, 2, PLAYER, FALSE>>, <<2, 1, BOT, FALSE>>})

\* The mirror image for the Bot.
BlockedNextBot ==
  MkBoard({<<7, 0, BOT, TRUE>>, <<7, 2, BOT, TRUE>>, <<7, 4, BOT, TRUE>>,
           <<7, 6, BOT, TRUE>>, <<6, 1, BOT, FALSE>>, <<6, 3, BOT, FALSE>>,
           <<6, 5, BOT, FALSE>>, <<4, 5, BOT, FALSE>>, <<5, 6, PLAYER, FALSE>>})

\* A double jump for the Player man at (7, 0); a Bot man next to its last row.
DoubleJump ==
  MkBoard({<<7, 0, PLAYER, FALSE>>, <<6, 1, BOT, FALSE>>, <<4, 3, BOT, FALSE>>,
           <<6, 5, BOT, FALSE>>, <<2, 5, PLAYER, FALSE>>})

\* Men of both sides that are crowned by a step or by a jump, a chain that
\* crosses the crowning row's neighbourhood, and kings that move away.
Crowning ==
  MkBoard({<<1, 2, PLAYER, FALSE>>, <<2, 5, PLAYER, FALSE>>, <<1, 6, BOT, FALSE>>,
           <<6, 3, BOT, FALSE>>, <<5, 0, BOT, FALSE>>, <<6, 1, PLAYER, FALSE>>,
           <<4, 5, PLAYER, TRUE>>, <<3, 0, BOT, TRUE>>})

Scenarios == {setup, Ring, RingTop, JamNext, BlockedNext, BlockedNextBot, DoubleJump, Crowning}

DarkCells == {cell \in Cells : (cell[1] + cell[2]) % 2 = 1}

\* Where a piece can stand: a man never stands on the row that crowns it.
CanStand(cell, color, king) ==
  king \/ (color = PLAYER /\ cell[1] # 0) \/ (color = BOT /\ cell[1] # ROWS - 1)

\* Every board with one Player piece and one Bot piece, of any kind, at most
\* DuelReach rows and columns apart.
Duels ==
  {MkBoard({<<x[1], x[2], PLAYER, kx>>, <<y[1], y[2], BOT, ky>>}) :
     <<x, y, kx, ky>> \in
       {q \in DarkCells \X DarkCells \X BOOLEAN \X BOOLEAN :
          /\ q[1] # q[2]
          /\ q[1][1] - q[2][1] \in -DuelReach .. DuelReach
          /\ q[1][2] - q[2][2] \in -DuelReach .. DuelReach
          /\ CanStand(q[1], PLAYER, q[3])
          /\ CanStand(q[2], BOT, q[4])}}

Boards == Scenarios \cup Duels

InitBoard ==
  /\ board \in Boards
  /\ turn = PLAYER
  /\ ai_thinking = FALSE
  /\ selected = None
  /\ valid_moves = None
  /\ message = ""
  /\ over = FALSE
  /\ msg = ""
  /\ last = None
  /\ plies = 0

\* board.apply_move(r, c, to_r, to_c, captured) with any move of
\* lm = legal_moves_for(r, c).
ApplyMoveCall(r, c, lm) ==
  /\ plies < MaxCalls
  /\ \E k \in 1 .. Len(lm) :
       /\ board' = apply_move(board, r, c, lm[k][1], lm[k][2], lm[k][3])
       /\ last' = <<board, r, c, lm[k]>>
  /\ plies' = plies + 1
  /\ UNCHANGED <<turn, ai_thinking, selected, valid_moves, message, over, msg>>

\* over, msg = board.game_over()
GameOverCall(res) ==
  /\ over' = res[1]
  /\ msg' = res[2]
  /\ UNCHANGED <<board, turn, ai_thinking, selected, valid_moves, message, last, plies>>

NextBoard ==
  \/ \E r \in 0 .. ROWS - 1, c \in 0 .. COLS - 1 :
       ApplyMoveCall(r, c, legal_moves_for(board, r, c))
  \/ \E res \in {game_over(board)} : GameOverCall(res)

SpecBoard == InitBoard /\ [][NextBoard]_vars

\* ------------------------------------------------------------ games under way
\* The game loop at its start and entered in the middle of a game: the
\* Player to move on a board on which neither side has lost, a few moves
\* from the end, from a crowning or from a choice between captures.

\* The Player man at (5, 2) can take the last Bot piece; the man at (7, 0)
\* can move on after that.
LastCapture ==
  MkBoard({<<5, 2, PLAYER, FALSE>>, <<7, 0, PLAYER, FALSE>>, <<4, 3, BOT, FALSE>>})

\* Once the Player has moved the man at (7, 6) the Bot has a double jump
\* from (2, 3) and a single jump from (2, 5).
BotChoiceNext ==
  MkBoard({<<3, 2, PLAYER, FALSE>>, <<5, 2, PLAYER, FALSE>>, <<3, 6, PLAYER, FALSE>>,
           <<7, 6, PLAYER, FALSE>>, <<2, 3, BOT, FALSE>>, <<2, 5, BOT, FALSE>>,
           <<1, 4, BOT, FALSE>>, <<0, 5, BOT, FALSE>>})

\* The Player king at (6, 5) can step to (7, 6) and so take from the Bot man
\* at (6, 7), the only Bot piece, its only move.
StuckNext ==
  MkBoard({<<6, 5, PLAYER, TRUE>>, <<6, 7, BOT, FALSE>>})

MidBoards == {setup, LastCapture, BotChoiceNext, StuckNext, Crowning, Ring, DoubleJump}

InitMid ==
  /\ board \in {b \in MidBoards : ~Head(game_over(b))}
  /\ turn = PLAYER
  /\ ai_thinking = FALSE
  /\ selected = None
  /\ valid_moves = None
  /\ message = ""
  /\ over = FALSE
  /\ msg = ""
  /\ last = None
  /\ plies = 0

SpecMid == InitMid /\ [][Next]_vars

\* ------------------------------------------------------------ query harness
\* The queries called directly on the authoritative Board, the only object
\* of the store before the call.  The boards: a piece in the middle of up to
\* MaxFoes opposing men standing where it could jump them, so that chains
\* branch, cross and close on themselves, and the same seen from the other
\* side.

FoeCells == {cell \in Cells : cell[1] \in {1, 3, 5} /\ cell[2] \in {2, 4, 6}}

Movers == {<<4, 3, PLAYER, TRUE>>, <<4, 3, PLAYER, FALSE>>, <<6, 3, PLAYER, FALSE>>}

Web(m, S) == MkBoard({m} \cup {<<x[1], x[2], opponent(m[3]), FALSE>> : x \in S})

Webs ==
  {Web(q[1], q[2]) :
     q \in Movers \X {T \in SUBSET FoeCells : Cardinality(T) <= MaxFoes}}

\* The board seen from the other side: turned by half a turn, colors swapped.
Flip(b) ==
  [cell \in Cells |->
     IF b[<<ROWS - 1 - cell[1], COLS - 1 - cell[2]>>] = None THEN None
     ELSE <<opponent(b[<<ROWS - 1 - cell[1], COLS - 1 - cell[2]>>][1]),
            b[<<ROWS - 1 - cell[1], COLS - 1 - cell[2]>>][2]>>]

QueryBoards == Scenarios \cup Webs \cup {Flip(b) : b \in Webs}

InitQuery ==
  /\ board \in QueryBoards
  /\ turn = PLAYER
  /\ ai_thinking = FALSE
  /\ selected = None
  /\ valid_moves = None
  /\ message = ""
  /\ over = FALSE
  /\ msg = ""
  /\ last = None
  /\ plies = 0

\* selected = (r, c); valid_moves = board.legal_moves_for(r, c) for a piece
\* on (r, c), res = <<moves, store>> what the call returned and left.
LegalMovesCall(r, c, res) ==
  /\ get(board, r, c) # None
  /\ selected' = <<r, c>>
  /\ valid_moves' = res[1]
  /\ board' = View(res[2], Root)
  /\ UNCHANGED <<turn, ai_thinking, message, over, msg, last, plies>>

\* board.any_capture_available(color), its result dropped.
AnyCaptureCall(res) ==
  /\ board' = View(res[2], Root)
  /\ UNCHANGED <<turn, ai_thinking, selected, valid_moves, message, over, msg, last, plies>>

\* over, msg = board.game_over()
GameOverQuery(res) ==
  /\ over' = res[1]
  /\ msg' = res[2]
  /\ board' = View(res[3], Root)
  /\ UNCHANGED <<turn, ai_thinking, selected, valid_moves, message, last, plies>>

NextQuery ==
  \/ \E r \in 0 .. ROWS - 1, c \in 0 .. COLS - 1 :
       \E res \in {legal_moves_in(HeapOf(board), Root, r, c)} : LegalMovesCall(r, c, res)
  \/ \E color \in {PLAYER, BOT} :
       \E res \in {any_capture_in(HeapOf(board), Root, color)} : AnyCaptureCall(res)
  \/ \E res \in {game_over_in(HeapOf(board), Root)} : GameOverQuery(res)

SpecQuery == InitQuery /\ [][NextQuery]_vars

\* ------------------------------------------------------------------ claims
\* Vocabulary of the claims, stated on the board itself and not through the
\* move generator.

\* The last apply_move call: the board it was made on, its source cell, the
\* piece it moved, its destination and its captured list.
Before == last[1]
Src == <<last[2], last[3]>>
Moved == last[1][<<last[2], last[3]>>]
Dest == <<last[4][1], last[4][2]>>
Captured == last[4][3]

Count(b, color) == Cardinality({x \in Cells : b[x] # None /\ b[x][1] = color})

\* A piece may go towards rows dr: a king anywhere, a Player man up the
\* board, a Bot man down.
Forward(p, dr) == p[2] \/ (p[1] = PLAYER /\ dr = -1) \/ (p[1] = BOT /\ dr = 1)

\* The piece on x can jump: an opponent's piece on a neighbouring diagonal
\* cell in a direction it may go, and an empty cell on the board behind it.
CanJump(b, x) ==
  \E dr \in {-1, 1}, dc \in {-1, 1} :
    /\ Forward(b[x], dr)
    /\ <<x[1] + dr, x[2] + dc>> \in Cells
    /\ <<x[1] + 2 * dr, x[2] + 2 * dc>> \in Cells
    /\ b[<<x[1] + dr, x[2] + dc>>] # None
    /\ b[<<x[1] + dr, x[2] + dc>>][1] # b[x][1]
    /\ b[<<x[1] + 2 * dr, x[2] + 2 * dc>>] = None

\* The piece on x can step to an empty neighbouring cell.
CanStep(b, x) ==
  \E dr \in {-1, 1}, dc \in {-1, 1} :
    /\ Forward(b[x], dr)
    /\ <<x[1] + dr, x[2] + dc>> \in Cells
    /\ b[<<x[1] + dr, x[2] + dc>>] = None

SideCanJump(b, color) ==
  \E x \in Cells : b[x] # None /\ b[x][1] = color /\ CanJump(b, x)

\* No piece of the side has a legal move.
Stuck(b, color) ==
  \A x \in Cells :
    (b[x] # None /\ b[x][1] = color) => legal_moves_for(b, x[1], x[2]) = <<>>

\* The row on which a man of the side is crowned.
BackRank(color, row) == (color = PLAYER /\ row = 0) \/ (color = BOT /\ row = ROWS - 1)

\* The side a game_over message names as the winner.
Winner(m) ==
  IF m \in {"Bot wins", "Bot wins (no moves for player)"} THEN BOT
  ELSE IF m \in {"Player wins", "Player wins (no moves for bot)"} THEN PLAYER
  ELSE NoTurn

\* The board after the jumps of a chain from x: the piece, as it was, on the
\* destination, the start cell and the captured cells empty.
AfterJumps(b, x, mv) ==
  [y \in Cells |->
     IF y = <<mv[1], mv[2]>> THEN b[x]
     ELSE IF y = x \/ (\E i \in 1 .. Len(mv[3]) : mv[3][i] = y) THEN None
     ELSE b[y]]

\* C1: for every occupied cell of the board, when its piece can jump every
\* move legal_moves_for returns is a capture, and when it cannot every move
\* returned has an empty captured list.
C1_CapturesOnly ==
  \A x \in Cells :
    board[x] # None =>
      \A lm \in {legal_moves_for(board, x[1], x[2])} :
        \A i \in 1 .. Len(lm) : (lm[i][3] # <<>>) <=> CanJump(board, x)

\* A capture was applied for a piece that could also have stepped aside.
C1_Witness ==
  /\ last # None
  /\ Captured # <<>>
  /\ CanJump(Before, Src)
  /\ CanStep(Before, Src)

\* C2: after apply_move of a legal move the destination holds the moved
\* piece's side, the source is empty when it is another cell, and the moving
\* side has as many pieces as before.
C2_PieceRelocated ==
  last # None =>
    /\ board[Dest] # None
    /\ board[Dest][1] = Moved[1]
    /\ (Src # Dest => board[Src] = None)
    /\ Count(board, Moved[1]) = Count(Before, Moved[1])

\* C3: no capture chain that legal_moves_for returns can be extended: after
\* its jumps the piece cannot jump from the destination.
C3_ChainsMaximal ==
  \A x \in Cells :
    board[x] # None =>
      \A lm \in {legal_moves_for(board, x[1], x[2])} :
        \A i \in 1 .. Len(lm) :
          lm[i][3] # <<>>
            => ~CanJump(AfterJumps(board, x, lm[i]), <<lm[i][1], lm[i][2]>>)

\* A man made a chain of two jumps or more.
C3_Witness ==
  /\ last # None
  /\ Len(Captured) >= 2
  /\ ~Moved[2]

\* C4: whenever the side that moves has a piece that can jump, the move the
\* game loop applies is a capture.
C4_CaptureEnforced ==
  last # None => (SideCanJump(Before, Moved[1]) => Captured # <<>>)

\* C5: with no Player piece and a Bot piece on the board game_over reports
\* <<TRUE, "Bot wins">>, with no Bot piece and a Player piece it reports
\* <<TRUE, "Player wins">>, whether or not the remaining side can move.
C5_Elimination ==
  /\ (Count(board, PLAYER) = 0 /\ Count(board, BOT) >= 1)
       => game_over(board) = <<TRUE, "Bot wins">>
  /\ (Count(board, BOT) = 0 /\ Count(board, PLAYER) >= 1)
       => game_over(board) = <<TRUE, "Player wins">>

\* game_over was called on a board without Bot pieces whose Player pieces
\* cannot move, and reported the Player as the winner.
C5_Witness ==
  /\ last # None
  /\ Count(board, BOT) = 0
  /\ Count(board, PLAYER) >= 1
  /\ Stuck(board, PLAYER)
  /\ over /\ msg = "Player wins"

\* C6 as claimed: with pieces of both sides on the board game_over reports
\* over exactly when a side is stuck, the Bot wins when the Player is stuck
\* and the Player wins when the Bot is stuck.
C6_StuckSideLoses ==
  (Count(board, PLAYER) >= 1 /\ Count(board, BOT) >= 1) =>
    \A res \in {game_over(board)} :
      /\ res[1] <=> (Stuck(board, PLAYER) \/ Stuck(board, BOT))
      /\ Stuck(board, PLAYER) => Winner(res[2]) = BOT
      /\ Stuck(board, BOT) => Winner(res[2]) = PLAYER

\* C6 as amended: with pieces of both sides on the board game_over reports
\* over exactly when a side is stuck; the Bot wins when the Player is stuck,
\* also when the Bot is stuck too, and the Player wins when only the Bot is
\* stuck.
C6_PlayerCheckedFirst ==
  (Count(board, PLAYER) >= 1 /\ Count(board, BOT) >= 1) =>
    \A res \in {game_over(board)} :
      /\ res[1] <=> (Stuck(board, PLAYER) \/ Stuck(board, BOT))
      /\ Stuck(board, PLAYER) => Winner(res[2]) = BOT
      /\ (Stuck(board, BOT) /\ ~Stuck(board, PLAYER)) => Winner(res[2]) = PLAYER

\* game_over was called on a board where neither side can move.
C6_Witness ==
  /\ last # None
  /\ Count(board, PLAYER) >= 1 /\ Count(board, BOT) >= 1
  /\ Stuck(board, PLAYER) /\ Stuck(board, BOT)
  /\ over /\ msg = "Bot wins (no moves for player)"

\* C7: every piece stands on a cell whose row and column add up to an odd
\* number.
C7_DarkSquares ==
  \A x \in Cells : board[x] # None => (x[1] + x[2]) % 2 = 1

\* Two moves were applied one after the other, the second a capture.
C7_Witness ==
  /\ plies >= 2
  /\ last # None
  /\ Captured # <<>>
  /\ board[Dest] # None

\* C8: after apply_move every captured cell is empty and the side captured
\* from has exactly as many pieces fewer as cells were captured, never more
\* than before.
C8_CapturedRemoved ==
  last # None =>
    /\ \A i \in 1 .. Len(Captured) : board[Captured[i]] = None
    /\ Count(board, opponent(Moved[1])) = Count(Before, opponent(Moved[1])) - Len(Captured)
    /\ Count(board, opponent(Moved[1])) <= Count(Before, opponent(Moved[1]))

\* A chain took several pieces and the side captured from still has pieces.
C8_Witness ==
  /\ last # None
  /\ Len(Captured) >= 2
  /\ Count(board, opponent(Moved[1])) >= 1
  /\ Count(board, opponent(Moved[1])) < Count(Before, opponent(Moved[1]))

\* C9: apply_move never leaves a man where a king was: a man on the
\* destination was moved as a man, and a man anywhere else is the piece
\* that stood there before.
C9_KingsStayKings ==
  last # None =>
    \A x \in Cells :
      (board[x] # None /\ ~board[x][2]) =>
        IF x = Dest THEN ~Moved[2] ELSE board[x] = Before[x]

\* A king was moved to a row that crowns nobody and is a king there.
C9_Witness ==
  /\ last # None
  /\ Moved[2]
  /\ Src # Dest
  /\ Dest[1] \notin {0, ROWS - 1}
  /\ board[Dest] = <<Moved[1], TRUE>>

\* C10: after apply_move the piece on the destination is a king exactly
\* when it was a king before the move or the destination row is the back
\* rank of its side.
C10_CrownedOnBackRank ==
  last # None =>
    ((board[Dest] # None /\ board[Dest][2])
       <=> (Moved[2] \/ BackRank(Moved[1], Dest[1])))

\* C11: legal_moves_for, any_capture_available and game_over leave the
\* authoritative board unchanged: every step of the query harness, each of
\* them one of the three calls, ends with every cell of the board holding
\* what it held before.
C11_QueriesKeepBoard == [][board' = board]_vars

\* legal_moves_for returned a chain of several jumps, each made on a clone
\* of a clone, for a piece that still stands where it stood among the pieces
\* the chain would take.
C11_Witness ==
  /\ selected # None
  /\ board[selected] # None
  /\ \E i \in 1 .. Len(valid_moves) :
       /\ Len(valid_moves[i][3]) >= 2
       /\ \A j \in 1 .. Len(valid_moves[i][3]) : board[valid_moves[i][3][j]] # None
  /\ valid_moves = legal_moves_for(board, selected[1], selected[2])

\* The search from (r, c) on b shrinks the opponent: every jump it makes on
\* a clone leaves the clone with one opposing piece fewer than b, and so
\* does the search that goes on from the landing cell.
RECURSIVE SearchShrinks(_, _, _)
SearchShrinks(b, r, c) ==
  \A cap \in {Jumps(b, r, c, b[<<r, c>>][1], directions(b[<<r, c>>][1], b[<<r, c>>][2]))[i] :
                i \in 1 .. Len(Jumps(b, r, c, b[<<r, c>>][1],
                                     directions(b[<<r, c>>][1], b[<<r, c>>][2])))} :
    \A cl \in {JumpOnClone(b, r, c, cap[1], cap[2], cap[3])} :
      /\ Count(cl, opponent(b[<<r, c>>][1])) = Count(b, opponent(b[<<r, c>>][1])) - 1
      /\ SearchShrinks(cl, cap[1], cap[2])

\* C12: legal_moves_for returns for every piece of every board; each jump
\* of its search takes one opposing piece off the clone it searches on, no
\* chain it returns lists a cell twice, and none lists more cells than the
\* opponent has pieces.
C12_ChainsBounded ==
  \A x \in Cells :
    board[x] # None =>
      /\ SearchShrinks(board, x[1], x[2])
      /\ \A lm \in {legal_moves_for(board, x[1], x[2])} :
           \A i \in 1 .. Len(lm) :
             /\ \A j, k \in 1 .. Len(lm[i][3]) : j # k => lm[i][3][j] # lm[i][3][k]
             /\ Len(lm[i][3]) <= Count(board, opponent(board[x][1]))

\* legal_moves_for returned a chain that ends on the cell it started from,
\* having taken four pieces on its way round.
C12_Witness ==
  /\ selected # None
  /\ \E i \in 1 .. Len(valid_moves) :
       /\ <<valid_moves[i][1], valid_moves[i][2]>> = selected
       /\ Len(valid_moves[i][3]) = 4

\* The row a man of the color stands on after n rows forward from row.
Ahead(color, row, n) == IF color = PLAYER THEN row - n ELSE row + n

\* C14: the chain search keeps the king flag the piece had when the move
\* began: in every capture legal_moves_for returns for a man, the i-th
\* captured cell lies 2i - 1 rows ahead of the start and the destination
\* twice as many rows ahead as cells were captured, so no jump of a man goes
\* backward, whichever rows the chain lands on.
C14_MenJumpForward ==
  \A x \in Cells :
    (board[x] # None /\ ~board[x][2]) =>
      \A lm \in {legal_moves_for(board, x[1], x[2])} :
        \A i \in 1 .. Len(lm) :
          lm[i][3] # <<>> =>
            /\ lm[i][1] = Ahead(board[x][1], x[1], 2 * Len(lm[i][3]))
            /\ \A j \in 1 .. Len(lm[i][3]) :
                 lm[i][3][j][1] = Ahead(board[x][1], x[1], 2 * j - 1)

\* legal_moves_for returned, for a man, a chain that ends on the row that
\* crowns it, from where a king of its side could have jumped on.
C14_Witness ==
  /\ selected # None
  /\ board[selected] # None
  /\ ~board[selected][2]
  /\ \E i \in 1 .. Len(valid_moves) :
       /\ Len(valid_moves[i][3]) >= 2
       /\ BackRank(board[selected][1], valid_moves[i][1])
       /\ CanJump([AfterJumps(board, selected, valid_moves[i])
                     EXCEPT ![<<valid_moves[i][1], valid_moves[i][2]>>] =
                       <<board[selected][1], TRUE>>],
                  <<valid_moves[i][1], valid_moves[i][2]>>)

\* The cell right behind cap for a piece that jumps it from p.
Beyond(p, cap) == <<2 * cap[1] - p[1], 2 * cap[2] - p[2]>>

\* Where a piece that starts on x stands after the first i jumps over caps.
RECURSIVE Landing(_, _, _)
Landing(x, caps, i) == IF i = 0 THEN x ELSE Beyond(Landing(x, caps, i - 1), caps[i])

\* The jump over cap from the cell p, landing on q, by the piece that
\* started on x, can be made: cap is a diagonal neighbour of p in a
\* direction the piece may go and holds an opposing piece on b, and q is on
\* the board and empty on b or is the cell the piece left.
JumpRealizable(b, x, p, cap, q) ==
  /\ cap[1] - p[1] \in {-1, 1}
  /\ cap[2] - p[2] \in {-1, 1}
  /\ Forward(b[x], cap[1] - p[1])
  /\ cap \in Cells
  /\ b[cap] # None
  /\ b[cap][1] = opponent(b[x][1])
  /\ q \in Cells
  /\ (b[q] = None \/ q = x)

\* C15: every capture legal_moves_for returns lists its jumps in the order
\* they are made: each captured cell can be jumped from where the piece
\* stands after the jumps before it, and the destination is where the last
\* jump lands.  The Player man at (7, 0) with Bot men at (6, 1) and (4, 3)
\* has the single move to (3, 4) capturing (6, 1) then (4, 3).
C15_ChainsRealizable ==
  /\ \A x \in Cells :
       board[x] # None =>
         \A lm \in {legal_moves_for(board, x[1], x[2])} :
           \A i \in 1 .. Len(lm) :
             lm[i][3] # <<>> =>
               /\ \A j \in 1 .. Len(lm[i][3]) :
                    JumpRealizable(board, x, Landing(x, lm[i][3], j - 1), lm[i][3][j],
                                   Landing(x, lm[i][3], j))
               /\ <<lm[i][1], lm[i][2]>> = Landing(x, lm[i][3], Len(lm[i][3]))
  /\ board = DoubleJump =>
       legal_moves_for(board, 7, 0) = << <<3, 4, << <<6, 1>>, <<4, 3>> >> >> >>

\* legal_moves_for was called for the man at (7, 0) of that board and
\* returned the double jump.
C15_Witness ==
  /\ board = DoubleJump
  /\ selected = <<7, 0>>
  /\ valid_moves = << <<3, 4, << <<6, 1>>, <<4, 3>> >> >> >>

\* A step of the game loop applied a move.
MoveApplied == last' # last

\* C13: the first move is the Player's; every applied move is made by the
\* side whose turn it is, is followed by game_over on the board it leaves,
\* and hands the turn to the other side unless the game is over; on the
\* Bot's turn the Bot is due to move without a click and every step is a
\* Bot move; the board changes by applied moves only.
C13_TurnsAlternate ==
  /\ []((last = None => turn = PLAYER) /\ (turn = BOT => ai_thinking))
  /\ [][/\ MoveApplied =>
             /\ turn \in {PLAYER, BOT}
             /\ board[<<last'[2], last'[3]>>] # None
             /\ board[<<last'[2], last'[3]>>][1] = turn
             /\ \A res \in {game_over(board')} :
                  /\ over' = res[1]
                  /\ turn' = IF res[1] THEN NoTurn ELSE opponent(turn)
        /\ turn = BOT => MoveApplied
        /\ board' # board => MoveApplied]_vars

\* The Player moved, the Bot answered and the turn is the Player's again.
C13_Witness ==
  /\ plies >= 2
  /\ last # None
  /\ Moved[1] = BOT
  /\ turn = PLAYER
  /\ ~ai_thinking

\* The lengths of the capture chains that the pieces of a side have on b.
CaptureLengths(b, color) ==
  UNION {{Len(legal_moves_for(b, x[1], x[2])[i][3]) :
            i \in 1 .. Len(legal_moves_for(b, x[1], x[2]))} :
           x \in {y \in Cells : b[y] # None /\ b[y][1] = color}} \ {0}

\* C16: every move bot_move may return is a legal move of a Bot piece; it is
\* a capture as long as the longest capture of any Bot piece whenever the
\* Bot has a capture, and bot_move returns None only when no Bot piece has a
\* legal move.
C16_BotTakesLongest ==
  \A mv \in bot_move(board) :
    \A lens \in {CaptureLengths(board, BOT)} :
      IF mv = None THEN Stuck(board, BOT)
      ELSE /\ board[<<mv[1], mv[2]>>] # None
           /\ board[<<mv[1], mv[2]>>][1] = BOT
           /\ \E lm \in {legal_moves_for(board, mv[1], mv[2])} :
                \E i \in 1 .. Len(lm) : lm[i] = <<mv[3], mv[4], mv[5]>>
           /\ lens # {} => (mv[5] # <<>> /\ \A n \in lens : n <= Len(mv[5]))
           /\ mv[5] = <<>> => lens = {}

\* The Bot made a double jump on a board where another of its pieces had a
\* single jump.
C16_Witness ==
  /\ last # None
  /\ Moved[1] = BOT
  /\ Len(Captured) = 2
  /\ 1 \in CaptureLengths(Before, BOT)
  /\ turn = PLAYER

\* C17: the game loop calls apply_move only for a piece of the side whose
\* turn it is and with a move that legal_moves_for returns for that piece on
\* the board as it is then; the selection is always a Player piece and the
\* cached valid_moves are its legal moves on the current board.
C17_AppliedMovesLegal ==
  /\ [](selected # None =>
          /\ board[selected] # None
          /\ board[selected][1] = PLAYER
          /\ valid_moves = legal_moves_for(board, selected[1], selected[2]))
  /\ [][MoveApplied =>
          /\ turn \in {PLAYER, BOT}
          /\ get(board, last'[2], last'[3]) # None
          /\ get(board, last'[2], last'[3])[1] = turn
          /\ last'[1] = board
          /\ \E lm \in {legal_moves_for(board, last'[2], last'[3])} :
               \E i \in 1 .. Len(lm) : lm[i] = last'[4]]_vars

\* The Player moved a piece selected after the Bot's answer to an earlier
\* move.
C17_Witness ==
  /\ plies >= 3
  /\ last # None
  /\ Moved[1] = PLAYER
  /\ selected = None

\* C18: whenever the turn is the Player's or the Bot's, that side has a
\* piece with a legal move; on the Bot's turn bot_move cannot return None,
\* so the branch of the Bot block that skips the move is never taken.
C18_SideToMoveCanMove ==
  /\ turn \in {PLAYER, BOT} => ~Stuck(board, turn)
  /\ turn = BOT => None \notin bot_move(board)

\* The turn went to the Bot, down to its last piece, after a move of the
\* Player.
C18_Witness ==
  /\ turn = BOT
  /\ ai_thinking
  /\ last # None
  /\ Moved[1] = PLAYER
  /\ Count(board, BOT) = 1

\* C19: once game_over has reported the end after an applied move the turn
\* is None and the message is the verdict, and from then on no move is
\* applied and the board, the turn and the message stay as they are.
C19_GameOverAbsorbing ==
  /\ [](over => (turn = NoTurn /\ message = msg /\ message # ""))
  /\ [][(over \/ turn = NoTurn) =>
          (board' = board /\ turn' = turn /\ message' = message /\ ~MoveApplied)]_vars

\* The game is over with moves left to apply, and the Player, who has a
\* piece that could move, can still click.
C19_Witness ==
  /\ over
  /\ turn = NoTurn
  /\ message # ""
  /\ ~ai_thinking
  /\ plies < MaxPlies
  /\ ~Stuck(board, PLAYER)

\* C20: on every board of a game no Player man stands on row 0 and no Bot
\* man stands on the last row.
C20_NoManOnBackRank ==
  \A x \in Cells :
    (board[x] # None /\ ~board[x][2]) => ~BackRank(board[x][1], x[1])

\* A man was moved to the row that crowns it and stands there as a king.
C20_Witness ==
  /\ last # None
  /\ ~Moved[2]
  /\ BackRank(Moved[1], Dest[1])
  /\ board[Dest] = <<Moved[1], TRUE>>

====
